---- MODULE Spec2Model ----
(***************************************************************************)
(* Model of go-zero's adaptive circuit breaker (googleBreaker) and of the  *)
(* RollingWindow it keeps its statistics in.                               *)
(*                                                                         *)
(* Time is the relative clock of core/timex (an integer number of ticks).  *)
(* Bucket sums are float64 in the code; the breaker only ever adds 1.0 and *)
(* 0.0, so every sum is a whole number and is modelled as an integer.  The *)
(* drop ratio is modelled as an exact fraction <<numerator, denominator>>; *)
(* float64 rounding of the division is not modelled.                       *)
(***************************************************************************)
EXTENDS Integers, Sequences, FiniteSets, TLC

\* ------------------------------------------------------------------ bounds
\* Number of concurrent callers (goroutines) sharing one breaker.
NumCallers == 2
\* Number of calls (doReq, allow, Accept, Reject) the breaker's caller starts.
MaxCalls == 7
\* Number of calls (Add, Reduce) the concurrent callers of a window start.
MaxWinCalls == 2
\* Number of calls (Add, Reduce) one caller makes in sequence on a window.
MaxSeqCalls == 4
\* Number of breaker names, and of GetBreaker / NoBreakerFor calls started.
NumNames == 1
MaxRegCalls == 4
\* Largest size, and the interval, handed to NewRollingWindow(size, interval).
WinSize == 2
WinInterval == 2
\* Number of buckets of the breaker's window, scaled down from 40.
BreakerBuckets == 1
\* Largest accepts and total handed to accept() as a pure function.
MaxTotal == 100
\* Resolution of the uniform draw of the probability gate: r = draw / GateRes.
GateRes == 4

\* ------------------------------------------------------- program constants
\* bucketDuration = window / buckets (250ms): the unit of the breaker's clock
BreakerInterval == 1
\* k = 1.5, kept as the fraction kNum / kDen
kNum == 3
kDen == 2
protection == 5

Callers == 1..NumCallers
\* the clock runs until one tick past a full window
MaxTime(w) == w.size * w.interval + 1

\* error values: nil, the breaker's rejection error, an error of the request
Nil == "nil"
ErrServiceUnavailable == "ErrServiceUnavailable"
ErrRequest == "ErrRequest"
Errors == {Nil, ErrRequest}

VARIABLES
    now,        \* timex.Now(): the relative clock
    panicnil,   \* the build's panic(nil) semantics (go < 1.21 or GODEBUG=panicnil=1)
    rw,         \* the breaker's RollingWindow: size, interval, ignoreCurrent,
                \* offset, lastTime and win.buckets (index -> [Sum, Count])
    writer,     \* rw.lock: the callers holding it exclusively
    readers,    \* rw.lock: the callers holding it shared
    pc,         \* each caller's position
    loc,        \* each caller's call frame
    promise,    \* whether the caller holds a googlePromise returned by allow()
    calls,      \* number of calls started so far
    added,      \* history variable: <<sum, count>> of the values added since the
                \* last rotation of the window
    lastAdd,    \* history variable: clock at the last completed Add, -1 if none
    oldest,     \* history variable: per bucket, the clock at the completion of
                \* the earliest Add whose value it holds, -1 if it holds none;
                \* recorded under SpecSeq only, the empty function elsewhere
    breakers,   \* breakers.go: the map name -> Breaker (NoBreaker where absent)
    lockW,      \* breakers.go lock: the callers holding it exclusively
    lockR,      \* breakers.go lock: the callers holding it shared
    gpc,        \* each caller's position in GetBreaker / NoBreakerFor
    gloc,       \* each caller's frame in GetBreaker / NoBreakerFor
    nextId,     \* identity of the next Breaker instance constructed
    made,       \* history variable: per name, the NewBreaker calls GetBreaker made
    disabled,   \* history variable: the names NoBreakerFor was called with
    disabledDone,   \* history variable: the names a NoBreakerFor returned for
    regCalls    \* number of GetBreaker / NoBreakerFor calls started so far

winVars == <<now, panicnil, rw, writer, readers, pc, loc, promise, calls, added, lastAdd, oldest>>

regVars == <<breakers, lockW, lockR, gpc, gloc, nextId, made, disabled, disabledDone, regCalls>>

vars == <<now, panicnil, rw, writer, readers, pc, loc, promise, calls, added, lastAdd, oldest,
          breakers, lockW, lockR, gpc, gloc, nextId, made, disabled, disabledDone, regCalls>>

\* ------------------------------------------------------------ Go arithmetic
\* Go's integer division truncates toward zero; % takes the dividend's sign.
TruncDiv(a, b) == IF a >= 0 THEN a \div b ELSE -((-a) \div b)
TruncMod(a, b) == a - b * TruncDiv(a, b)

\* ------------------------------------------------------------------- timex
Since(d, t) == t - d

\* ------------------------------------------------------ Bucket and window
ZeroBucket == [Sum |-> 0, Count |-> 0]

BucketAdd(b, v) == [Sum |-> b.Sum + v, Count |-> b.Count + 1]

BucketReset(b) == [Sum |-> 0, Count |-> 0]

newWindow(sz) == [i \in 0..(sz - 1) |-> ZeroBucket]

NewRollingWindow(sz, iv, ignore, t) ==
    [size |-> sz, interval |-> iv, ignoreCurrent |-> ignore,
     offset |-> 0, lastTime |-> t, buckets |-> newWindow(sz)]

windowAdd(w, off, b) == [w.buckets EXCEPT ![off % w.size] = b]

windowResetBucket(bs, sz, off) == [bs EXCEPT ![off % sz] = BucketReset(bs[off % sz])]

\* the indices window.reduce hands to fn, in order
windowReduce(w, start, count) == [i \in 1..count |-> (start + i - 1) % w.size]

\* ------------------------------------------------------------ RollingWindow
\* faulty variant: an out-of-range span wraps around the ring instead of being clamped
spanWrapped(w, t) == TruncDiv(Since(w.lastTime, t), w.interval) % w.size

span(w, t) ==
    LET off == TruncDiv(Since(w.lastTime, t), w.interval)
    IN  IF 0 <= off /\ off < w.size THEN off ELSE w.size

RECURSIVE resetExpired(_, _, _, _, _)
resetExpired(bs, sz, off, i, sp) ==
    IF i < sp
    THEN resetExpired(windowResetBucket(bs, sz, (off + i + 1) % sz), sz, off, i + 1, sp)
    ELSE bs

\* faulty variant: the offset advances over the expired buckets without resetting them
updateOffsetWithoutReset(w, sp, t) ==
    IF sp <= 0
    THEN w
    ELSE [w EXCEPT !.offset = (w.offset + sp) % w.size,
                   !.lastTime = t - TruncMod(t - w.lastTime, w.interval)]

\* faulty variant: the offset advances without wrapping around
updateOffsetWithoutWrap(w, sp, t) ==
    IF sp <= 0
    THEN w
    ELSE [w EXCEPT !.buckets = resetExpired(w.buckets, w.size, w.offset, 0, sp),
                   !.offset = w.offset + sp,
                   !.lastTime = t - TruncMod(t - w.lastTime, w.interval)]

\* updateOffset after its call of span() returned sp; t is its own clock read
updateOffset(w, sp, t) ==
    IF sp <= 0
    THEN w
    ELSE [w EXCEPT !.buckets = resetExpired(w.buckets, w.size, w.offset, 0, sp),
                   !.offset = (w.offset + sp) % w.size,
                   !.lastTime = t - TruncMod(t - w.lastTime, w.interval)]

\* faulty variant: the visit starts at the first aged-out slot
ReduceFromAgedOut(w, sp) ==
    LET diff == IF sp = 0 /\ w.ignoreCurrent THEN w.size - 1 ELSE w.size - sp
    IN  IF diff > 0 THEN windowReduce(w, (w.offset + 1) % w.size, diff) ELSE <<>>

\* faulty variant: the span is not taken into account, every slot is visited
ReduceWholeWindow(w, sp) == windowReduce(w, (w.offset + 1) % w.size, w.size)

\* the bucket indices Reduce visits when its call of span() returned sp
Reduce(w, sp) ==
    LET diff == IF sp = 0 /\ w.ignoreCurrent THEN w.size - 1 ELSE w.size - sp
    IN  IF diff > 0 THEN windowReduce(w, (w.offset + sp + 1) % w.size, diff) ELSE <<>>

\* sync.RWMutex: when RLock and Lock can be taken
\* faulty variant: Reduce takes no lock
CanRLockAlways == TRUE

CanRLock == writer = {}

\* faulty variant: Add waits for the readers only, not for another Add
CanLockReadersOnly == readers = {}

CanLock == writer = {} /\ readers = {}

\* ------------------------------------------------------------ googleBreaker
markFailure == 0

\* faulty variant: markSuccess adds what markFailure adds
markSuccessAddsZero == markFailure

markSuccess == 1

\* newGoogleBreaker(): the window it builds at clock t, without options
newGoogleBreaker(t) == NewRollingWindow(BreakerBuckets, BreakerInterval, FALSE, t)

\* history()'s closure folded over the visited buckets: <<accepts, total>>
RECURSIVE historyFold(_, _, _, _)
historyFold(bs, visited, accepts, total) ==
    IF visited = <<>>
    THEN <<accepts, total>>
    ELSE historyFold(bs, Tail(visited),
                     accepts + bs[Head(visited)].Sum,
                     total + bs[Head(visited)].Count)

history(w, sp) == historyFold(w.buckets, Reduce(w, sp), 0, 0)

\* fractions <<n, d>> with d > 0
RatSub(a, b) == <<a[1] * b[2] - b[1] * a[2], a[2] * b[2]>>
RatDivInt(a, n) == <<a[1], a[2] * n>>
RatMax0(a) == IF a[1] > 0 THEN a ELSE <<0, 1>>
RatLess(a, b) == a[1] * b[2] < b[1] * a[2]
RatEq(a, b) == a[1] * b[2] = b[1] * a[2]

weightedAccepts(accepts) == <<kNum * accepts, kDen>>

\* faulty variant: the protection is not subtracted
dropRatioNoProtection(accepts, total) ==
    RatMax0(RatDivInt(RatSub(<<total, 1>>, weightedAccepts(accepts)), total + 1))

\* faulty variant: the weighted accepts are added instead of subtracted
dropRatioAddsAccepts(accepts, total) ==
    RatMax0(RatDivInt(RatSub(<<total - protection, 1>>, <<-(kNum * accepts), kDen>>),
                      total + 1))

\* faulty variant: the ratio is not clamped at 0
dropRatioWithoutMax(accepts, total) ==
    RatDivInt(RatSub(<<total - protection, 1>>, weightedAccepts(accepts)), total + 1)

dropRatio(accepts, total) ==
    RatMax0(RatDivInt(RatSub(<<total - protection, 1>>, weightedAccepts(accepts)),
                      total + 1))

\* mathx.Proba.TrueOnProba(p) for the uniform draw r = draw / GateRes of [0, 1)
TrueOnProba(p, draw) == RatLess(<<draw, GateRes>>, p)

\* faulty variant: only a negative ratio admits without the gate
acceptOnlyNegative(accepts, total, draw) ==
    LET r == dropRatio(accepts, total)
    IN  IF r[1] < 0
        THEN [ratio |-> r, gate |-> "unused", err |-> Nil]
        ELSE IF TrueOnProba(r, draw)
             THEN [ratio |-> r, gate |-> "true", err |-> ErrServiceUnavailable]
             ELSE [ratio |-> r, gate |-> "false", err |-> Nil]

\* accept() after history() returned: the gate's use and the error returned
accept(accepts, total, draw) ==
    LET r == dropRatio(accepts, total)
    IN  IF r[1] <= 0
        THEN [ratio |-> r, gate |-> "unused", err |-> Nil]
        ELSE IF TrueOnProba(r, draw)
             THEN [ratio |-> r, gate |-> "true", err |-> ErrServiceUnavailable]
             ELSE [ratio |-> r, gate |-> "false", err |-> Nil]

\* the Acceptable predicates handed to doReq
Acceptables == {"default", "tolerant", "strict"}
acceptable(name, err) ==
    CASE name = "default" -> err = Nil
      [] name = "tolerant" -> TRUE
      [] OTHER -> FALSE

\* faulty variant: the mark follows err == nil, not acceptable(err)
markForNilOnly(name, err) == IF err = Nil THEN markSuccess ELSE markFailure

\* doReq's choice of mark for the error req() returned
markFor(name, err) == IF acceptable(name, err) THEN markSuccess ELSE markFailure

\* faulty variant: the fallback is not called
rejectWithoutFallback(f, err) == [f EXCEPT !.result = [kind |-> "return", val |-> err]]

\* doReq when accept() refused with err: the frame it returns with
reject(f, err) ==
    IF f.fallback
    THEN [f EXCEPT !.fbCalls = @ + 1, !.result = [kind |-> "fallback", val |-> err]]
    ELSE [f EXCEPT !.result = [kind |-> "return", val |-> err]]

\* ---------------------------------------------------------- call frames
NoOutcome == [kind |-> "none", val |-> Nil]

\* what req() may do: return an error value (nil included), or panic with a
\* value; the value is nil only in a build with panicnil semantics, where
\* panic(nil) hands recover() a nil (elsewhere the runtime raises a
\* *PanicNilError, one more non-nil fault)
ReqOutcomes == [kind : {"return"}, val : Errors] \cup [kind : {"panic"}, val : {Nil, "fault"}]

Frame0 ==
    [op |-> "none", fallback |-> FALSE, acceptable |-> "default",
     at |-> 0, span |-> 0, visited |-> <<>>, accepts |-> 0, total |-> 0,
     ratio |-> <<0, 1>>, gate |-> "unused",
     err |-> Nil, req |-> NoOutcome, reqCalls |-> 0, fbCalls |-> 0,
     v |-> 0, tmp |-> ZeroBucket, adds |-> <<>>, result |-> NoOutcome]

BucketTotals(bs) ==
    LET RECURSIVE Tot(_)
        Tot(i) == IF i < 0 THEN <<0, 0>>
                  ELSE <<Tot(i - 1)[1] + bs[i].Sum, Tot(i - 1)[2] + bs[i].Count>>
    IN  Tot(rw.size - 1)

\* ------------------------------------------------- breakers.go: the registry
Names == 1..NumNames

NoBreaker == [id |-> 0, kind |-> "none"]

\* NewBreaker(WithName(name)) and newNoOpBreaker(): a fresh instance each
NewBreaker(id) == [id |-> id, kind |-> "google"]
newNoOpBreaker(id) == [id |-> id, kind |-> "noop"]

GFrame0 == [op |-> "none", name |-> 0, b |-> NoBreaker, ok |-> FALSE,
            missed |-> FALSE, afterDisable |-> FALSE]

\* package initialisation: an empty map, the lock free
RegInit ==
    /\ breakers = [n \in Names |-> NoBreaker]
    /\ lockW = {}
    /\ lockR = {}
    /\ gpc = [t \in Callers |-> "idle"]
    /\ gloc = [t \in Callers |-> GFrame0]
    /\ nextId = 1
    /\ made = [n \in Names |-> 0]
    /\ disabled = {}
    /\ disabledDone = {}
    /\ regCalls = 0

Init ==
    /\ RegInit
    /\ now = 0
    /\ panicnil \in BOOLEAN
    /\ rw = newGoogleBreaker(now)
    /\ writer = {}
    /\ readers = {}
    /\ pc = [t \in Callers |-> "idle"]
    /\ loc = [t \in Callers |-> Frame0]
    /\ promise = [t \in Callers |-> FALSE]
    /\ calls = 0
    /\ added = <<0, 0>>
    /\ lastAdd = -1
    /\ oldest = <<>>

\* ------------------------------------------------------------------ actions
\* the relative clock advances
Tick ==
    /\ now < MaxTime(rw)
    /\ now' = now + 1
    /\ UNCHANGED <<panicnil, rw, writer, readers, pc, loc, promise, calls, added, lastAdd, oldest,
                 regVars>>

\* a caller enters doReq(req, fallback, acceptable)
CallDoReq(t) ==
    /\ pc[t] = "idle"
    /\ calls < MaxCalls
    /\ \E fb \in BOOLEAN, acc \in Acceptables :
         loc' = [loc EXCEPT ![t] = [Frame0 EXCEPT !.op = "doReq", !.fallback = fb,
                                                  !.acceptable = acc]]
    /\ pc' = [pc EXCEPT ![t] = "accept"]
    /\ calls' = calls + 1
    /\ UNCHANGED <<now, panicnil, rw, writer, readers, promise, added, lastAdd, oldest, regVars>>

\* a caller enters allow()
CallAllow(t) ==
    /\ pc[t] = "idle"
    /\ calls < MaxCalls
    /\ loc' = [loc EXCEPT ![t] = [Frame0 EXCEPT !.op = "allow"]]
    /\ pc' = [pc EXCEPT ![t] = "accept"]
    /\ calls' = calls + 1
    /\ UNCHANGED <<now, panicnil, rw, writer, readers, promise, added, lastAdd, oldest, regVars>>

\* a caller enters Reduce with history()'s closure
CallReduce(t) ==
    /\ pc[t] = "idle"
    /\ calls < MaxWinCalls
    /\ loc' = [loc EXCEPT ![t] = [Frame0 EXCEPT !.op = "Reduce"]]
    /\ pc' = [pc EXCEPT ![t] = "accept"]
    /\ calls' = calls + 1
    /\ UNCHANGED <<now, panicnil, rw, writer, readers, promise, added, lastAdd, oldest, regVars>>

\* a caller enters Add(v)
CallAdd(t) ==
    /\ pc[t] = "idle"
    /\ calls < MaxWinCalls
    /\ \E v \in {markSuccess, markFailure} :
         loc' = [loc EXCEPT ![t] = [Frame0 EXCEPT !.op = "Add", !.v = v]]
    /\ pc' = [pc EXCEPT ![t] = "Add"]
    /\ calls' = calls + 1
    /\ UNCHANGED <<now, panicnil, rw, writer, readers, promise, added, lastAdd, oldest, regVars>>

\* googlePromise.Accept(): markSuccess()
PromiseAccept(t) ==
    /\ pc[t] = "idle"
    /\ promise[t]
    /\ calls < MaxCalls
    /\ loc' = [loc EXCEPT ![t] = [Frame0 EXCEPT !.op = "Accept", !.v = markSuccess]]
    /\ pc' = [pc EXCEPT ![t] = "Add"]
    /\ calls' = calls + 1
    /\ UNCHANGED <<now, panicnil, rw, writer, readers, promise, added, lastAdd, oldest, regVars>>

\* googlePromise.Reject(): markFailure()
PromiseReject(t) ==
    /\ pc[t] = "idle"
    /\ promise[t]
    /\ calls < MaxCalls
    /\ loc' = [loc EXCEPT ![t] = [Frame0 EXCEPT !.op = "Reject", !.v = markFailure]]
    /\ pc' = [pc EXCEPT ![t] = "Add"]
    /\ calls' = calls + 1
    /\ UNCHANGED <<now, panicnil, rw, writer, readers, promise, added, lastAdd, oldest, regVars>>

\* accept() -> history() -> Reduce: RLock, then span()
ReduceRLock(t) ==
    /\ pc[t] = "accept"
    /\ CanRLock
    /\ readers' = readers \cup {t}
    /\ loc' = [loc EXCEPT ![t].at = now, ![t].span = span(rw, now)]
    /\ pc' = [pc EXCEPT ![t] = "reduce"]
    /\ UNCHANGED <<now, panicnil, rw, writer, promise, calls, added, lastAdd, oldest, regVars>>

\* faulty variant: Reduce rotates the window as Add's updateOffset does
ReduceRunRotating(t) ==
    /\ pc[t] = "reduce"
    /\ rw' = updateOffset(rw, loc[t].span, now)
    /\ LET h == history(rw', span(rw', now))
       IN  loc' = [loc EXCEPT ![t].visited = Reduce(rw', span(rw', now)),
                              ![t].accepts = h[1], ![t].total = h[2],
                              ![t].result = IF loc[t].op = "Reduce"
                                            THEN [kind |-> "return", val |-> Nil]
                                            ELSE @]
    /\ readers' = readers \ {t}
    /\ pc' = [pc EXCEPT ![t] = IF loc[t].op = "Reduce" THEN "ret" ELSE "decide"]
    /\ UNCHANGED <<now, panicnil, writer, promise, calls, added, lastAdd, oldest, regVars>>

\* the rest of Reduce with history()'s closure, and the deferred RUnlock
ReduceRun(t) ==
    /\ pc[t] = "reduce"
    /\ LET h == history(rw, loc[t].span)
       IN  loc' = [loc EXCEPT ![t].visited = Reduce(rw, loc[t].span),
                              ![t].accepts = h[1], ![t].total = h[2],
                              ![t].result = IF loc[t].op = "Reduce"
                                            THEN [kind |-> "return", val |-> Nil]
                                            ELSE @]
    /\ readers' = readers \ {t}
    /\ pc' = [pc EXCEPT ![t] = IF loc[t].op = "Reduce" THEN "ret" ELSE "decide"]
    /\ UNCHANGED <<now, panicnil, rw, writer, promise, calls, added, lastAdd, oldest, regVars>>

\* the rest of accept(), and what allow() or doReq do with its result
AcceptDecide(t) ==
    /\ pc[t] = "decide"
    /\ \E draw \in 0..(GateRes - 1) :
         LET a == accept(loc[t].accepts, loc[t].total, draw)
             f == [loc[t] EXCEPT !.ratio = a.ratio, !.gate = a.gate, !.err = a.err]
         IN  IF f.op = "allow"
             THEN /\ loc' = [loc EXCEPT ![t] =
                        [f EXCEPT !.result = IF a.err # Nil
                                             THEN [kind |-> "return", val |-> a.err]
                                             ELSE [kind |-> "promise", val |-> Nil]]]
                  /\ pc' = [pc EXCEPT ![t] = "ret"]
             ELSE IF a.err # Nil
                  THEN /\ loc' = [loc EXCEPT ![t] = reject(f, a.err)]
                       /\ pc' = [pc EXCEPT ![t] = "ret"]
                  ELSE /\ loc' = [loc EXCEPT ![t] = f]
                       /\ pc' = [pc EXCEPT ![t] = "req"]
    /\ UNCHANGED <<now, panicnil, rw, writer, readers, promise, calls, added, lastAdd, oldest,
                 regVars>>

\* doReq calls req(); on a normal return acceptable(err) picks the mark, on a
\* panic the deferred function marks a failure if recover() is not nil
ReqRun(t) ==
    /\ pc[t] = "req"
    /\ \E out \in ReqOutcomes :
         LET f == [loc[t] EXCEPT !.req = out, !.reqCalls = @ + 1]
         IN  /\ (out.kind = "panic" /\ out.val = Nil) => panicnil
             /\ IF out.kind = "return"
                THEN /\ loc' = [loc EXCEPT ![t] =
                           [f EXCEPT !.v = markFor(f.acceptable, out.val)]]
                     /\ pc' = [pc EXCEPT ![t] = "Add"]
                ELSE IF out.val # Nil
                     THEN /\ loc' = [loc EXCEPT ![t] = [f EXCEPT !.v = markFailure]]
                          /\ pc' = [pc EXCEPT ![t] = "Add"]
                     ELSE /\ loc' = [loc EXCEPT ![t] =
                                [f EXCEPT !.result = [kind |-> "return", val |-> Nil]]]
                          /\ pc' = [pc EXCEPT ![t] = "ret"]
    /\ UNCHANGED <<now, panicnil, rw, writer, readers, promise, calls, added, lastAdd, oldest,
                 regVars>>

\* Add: Lock, then updateOffset's call of span()
AddLock(t) ==
    /\ pc[t] = "Add"
    /\ CanLock
    /\ writer' = writer \cup {t}
    /\ loc' = [loc EXCEPT ![t].at = now, ![t].span = span(rw, now)]
    /\ pc' = [pc EXCEPT ![t] = "updateOffset"]
    /\ UNCHANGED <<now, panicnil, rw, readers, promise, calls, added, lastAdd, oldest, regVars>>

\* the rest of updateOffset, with its own clock read
AddUpdateOffset(t) ==
    /\ pc[t] = "updateOffset"
    /\ rw' = updateOffset(rw, loc[t].span, now)
    /\ added' = IF loc[t].span > 0 THEN <<0, 0>> ELSE added
    /\ pc' = [pc EXCEPT ![t] = "winAdd"]
    /\ oldest' = [i \in DOMAIN oldest |->
                    IF \E j \in 0..(loc[t].span - 1) : i = (rw.offset + j + 1) % rw.size
                    THEN -1 ELSE oldest[i]]
    /\ UNCHANGED <<now, panicnil, writer, readers, loc, promise, calls, lastAdd, regVars>>

\* win.add(rw.offset, v): Bucket.add reads the bucket ...
AddRead(t) ==
    /\ pc[t] = "winAdd"
    /\ loc' = [loc EXCEPT ![t].tmp = rw.buckets[rw.offset % rw.size]]
    /\ pc' = [pc EXCEPT ![t] = "bucketAdd"]
    /\ UNCHANGED <<now, panicnil, rw, writer, readers, promise, calls, added, lastAdd, oldest,
                 regVars>>

\* ... and writes it back; then the deferred Unlock ends Add (its locals are
\* gone), and the caller's return:
\* doReq returns req's error, or re-panics with the recovered value
AddWrite(t) ==
    /\ pc[t] = "bucketAdd"
    /\ rw' = [rw EXCEPT !.buckets = windowAdd(rw, rw.offset, BucketAdd(loc[t].tmp, loc[t].v))]
    /\ writer' = writer \ {t}
    /\ added' = <<added[1] + loc[t].v, added[2] + 1>>
    /\ lastAdd' = now
    /\ oldest' = [i \in DOMAIN oldest |->
                    IF i = rw.offset /\ oldest[i] = -1 THEN now ELSE oldest[i]]
    /\ loc' = [loc EXCEPT ![t].adds = Append(@, loc[t].v),
                          ![t].at = Frame0.at,
                          ![t].span = Frame0.span,
                          ![t].tmp = Frame0.tmp,
                          ![t].result =
                              IF loc[t].op = "doReq"
                              THEN IF loc[t].req.kind = "panic"
                                   THEN [kind |-> "panic", val |-> loc[t].req.val]
                                   ELSE [kind |-> "return", val |-> loc[t].req.val]
                              ELSE [kind |-> "return", val |-> Nil]]
    /\ pc' = [pc EXCEPT ![t] = "ret"]
    /\ UNCHANGED <<now, panicnil, readers, promise, calls, regVars>>

\* the call returns (or its panic leaves it) to the caller
Return(t) ==
    /\ pc[t] = "ret"
    /\ promise' = [promise EXCEPT ![t] = @ \/ loc[t].result.kind = "promise"]
    /\ loc' = [loc EXCEPT ![t] = Frame0]
    /\ pc' = [pc EXCEPT ![t] = "idle"]
    /\ UNCHANGED <<now, panicnil, rw, writer, readers, calls, added, lastAdd, oldest, regVars>>

\* the steps inside accept(), history(), Add and the return
Steps(t) ==
    \/ ReduceRLock(t)
    \/ ReduceRun(t)
    \/ AddLock(t)
    \/ AddUpdateOffset(t)
    \/ AddRead(t)
    \/ AddWrite(t)
    \/ Return(t)

\* The breaker's calling conventions, driven by one caller.
Main == 1

Next ==
    \/ Tick
    \/ CallDoReq(Main)
    \/ CallAllow(Main)
    \/ PromiseAccept(Main)
    \/ PromiseReject(Main)
    \/ AcceptDecide(Main)
    \/ ReqRun(Main)
    \/ Steps(Main)

Spec == Init /\ [][Next]_vars

\* One RollingWindow, constructed without options as the breaker's is, under
\* concurrent callers of Add and Reduce.
NextWin ==
    \/ Tick
    \/ \E t \in Callers :
         \/ CallReduce(t)
         \/ CallAdd(t)
         \/ Steps(t)

InitWin ==
    /\ RegInit
    /\ now = 0
    /\ panicnil = FALSE
    /\ \E sz \in 1..WinSize, iv \in {WinInterval}, ignore \in {FALSE} :
         rw = NewRollingWindow(sz, iv, ignore, now)
    /\ writer = {}
    /\ readers = {}
    /\ pc = [t \in Callers |-> "idle"]
    /\ loc = [t \in Callers |-> Frame0]
    /\ promise = [t \in Callers |-> FALSE]
    /\ calls = 0
    /\ added = <<0, 0>>
    /\ lastAdd = -1
    /\ oldest = <<>>

SpecWin == InitWin /\ [][NextWin]_vars

\* One RollingWindow under one caller's sequence of Add and Reduce calls,
\* with the clock free to advance between any two steps of a call.
SeqReduce ==
    /\ pc[Main] = "idle"
    /\ calls < MaxSeqCalls
    /\ loc' = [loc EXCEPT ![Main] = [Frame0 EXCEPT !.op = "Reduce"]]
    /\ pc' = [pc EXCEPT ![Main] = "accept"]
    /\ calls' = calls + 1
    /\ UNCHANGED <<now, panicnil, rw, writer, readers, promise, added, lastAdd, oldest, regVars>>

SeqAdd ==
    /\ pc[Main] = "idle"
    /\ calls < MaxSeqCalls
    /\ \E v \in {markSuccess, markFailure} :
         loc' = [loc EXCEPT ![Main] = [Frame0 EXCEPT !.op = "Add", !.v = v]]
    /\ pc' = [pc EXCEPT ![Main] = "Add"]
    /\ calls' = calls + 1
    /\ UNCHANGED <<now, panicnil, rw, writer, readers, promise, added, lastAdd, oldest, regVars>>

NextSeq ==
    \/ Tick
    \/ SeqReduce
    \/ SeqAdd
    \/ Steps(Main)

\* the window as InitWin constructs it, the history variable oldest recorded
InitSeq ==
    /\ RegInit
    /\ now = 0
    /\ panicnil = FALSE
    /\ \E sz \in 1..WinSize, iv \in {WinInterval}, ignore \in BOOLEAN :
         rw = NewRollingWindow(sz, iv, ignore, now)
    /\ writer = {}
    /\ readers = {}
    /\ pc = [t \in Callers |-> "idle"]
    /\ loc = [t \in Callers |-> Frame0]
    /\ promise = [t \in Callers |-> FALSE]
    /\ calls = 0
    /\ added = <<0, 0>>
    /\ lastAdd = -1
    /\ oldest = [i \in 0..(rw.size - 1) |-> -1]

SpecSeq == InitSeq /\ [][NextSeq]_vars

\* ------------------------------------------- GetBreaker and NoBreakerFor
\* a caller enters GetBreaker(name)
GetBreakerCall(t) ==
    /\ gpc[t] = "idle"
    /\ regCalls < MaxRegCalls
    /\ \E n \in Names :
         gloc' = [gloc EXCEPT ![t] = [GFrame0 EXCEPT !.op = "GetBreaker", !.name = n,
                                                     !.afterDisable = n \in disabledDone]]
    /\ gpc' = [gpc EXCEPT ![t] = "RLock"]
    /\ regCalls' = regCalls + 1
    /\ UNCHANGED <<winVars, breakers, lockW, lockR, nextId, made, disabled, disabledDone>>

\* lock.RLock()
GetRLock(t) ==
    /\ gpc[t] = "RLock"
    /\ lockW = {}
    /\ lockR' = lockR \cup {t}
    /\ gpc' = [gpc EXCEPT ![t] = "read"]
    /\ UNCHANGED <<winVars, breakers, lockW, gloc, nextId, made, disabled, disabledDone,
                   regCalls>>

\* b, ok := breakers[name]; lock.RUnlock(); if ok { return b }
GetRead(t) ==
    /\ gpc[t] = "read"
    /\ LET b == breakers[gloc[t].name]
           ok == b # NoBreaker
       IN  /\ gloc' = [gloc EXCEPT ![t].b = b, ![t].ok = ok, ![t].missed = ~ok]
           /\ gpc' = [gpc EXCEPT ![t] = IF ok THEN "ret" ELSE "Lock"]
    /\ lockR' = lockR \ {t}
    /\ UNCHANGED <<winVars, breakers, lockW, nextId, made, disabled, disabledDone, regCalls>>

\* lock.Lock()
GetLock(t) ==
    /\ gpc[t] = "Lock"
    /\ lockW = {} /\ lockR = {}
    /\ lockW' = lockW \cup {t}
    /\ gpc' = [gpc EXCEPT ![t] = "store"]
    /\ UNCHANGED <<winVars, breakers, lockR, gloc, nextId, made, disabled, disabledDone,
                   regCalls>>

\* faulty variant: the map is not read again under the exclusive lock
GetStoreWithoutRecheck(t) ==
    /\ gpc[t] = "store"
    /\ gloc' = [gloc EXCEPT ![t].b = NewBreaker(nextId), ![t].ok = FALSE]
    /\ breakers' = [breakers EXCEPT ![gloc[t].name] = NewBreaker(nextId)]
    /\ nextId' = nextId + 1
    /\ made' = [made EXCEPT ![gloc[t].name] = @ + 1]
    /\ lockW' = lockW \ {t}
    /\ gpc' = [gpc EXCEPT ![t] = "ret"]
    /\ UNCHANGED <<winVars, lockR, disabled, disabledDone, regCalls>>

\* b, ok = breakers[name]; if !ok { b = NewBreaker(...); breakers[name] = b };
\* lock.Unlock()
GetStore(t) ==
    /\ gpc[t] = "store"
    /\ LET b == breakers[gloc[t].name]
           ok == b # NoBreaker
       IN  IF ok
           THEN /\ gloc' = [gloc EXCEPT ![t].b = b, ![t].ok = ok]
                /\ UNCHANGED <<breakers, nextId, made>>
           ELSE /\ gloc' = [gloc EXCEPT ![t].b = NewBreaker(nextId), ![t].ok = ok]
                /\ breakers' = [breakers EXCEPT ![gloc[t].name] = NewBreaker(nextId)]
                /\ nextId' = nextId + 1
                /\ made' = [made EXCEPT ![gloc[t].name] = @ + 1]
    /\ lockW' = lockW \ {t}
    /\ gpc' = [gpc EXCEPT ![t] = "ret"]
    /\ UNCHANGED <<winVars, lockR, disabled, disabledDone, regCalls>>

\* a caller enters NoBreakerFor(name)
NoBreakerForCall(t) ==
    /\ gpc[t] = "idle"
    /\ regCalls < MaxRegCalls
    /\ \E n \in Names :
         /\ gloc' = [gloc EXCEPT ![t] = [GFrame0 EXCEPT !.op = "NoBreakerFor", !.name = n]]
         /\ disabled' = disabled \cup {n}
    /\ gpc' = [gpc EXCEPT ![t] = "NoLock"]
    /\ regCalls' = regCalls + 1
    /\ UNCHANGED <<winVars, breakers, lockW, lockR, nextId, made, disabledDone>>

\* lock.Lock()
NoBreakerForLock(t) ==
    /\ gpc[t] = "NoLock"
    /\ lockW = {} /\ lockR = {}
    /\ lockW' = lockW \cup {t}
    /\ gpc' = [gpc EXCEPT ![t] = "NoStore"]
    /\ UNCHANGED <<winVars, breakers, lockR, gloc, nextId, made, disabled, disabledDone,
                   regCalls>>

\* faulty variant: the no-op breaker is stored only where none is registered
NoBreakerForStoreIfAbsent(t) ==
    /\ gpc[t] = "NoStore"
    /\ breakers' = [breakers EXCEPT ![gloc[t].name] =
                        IF @ = NoBreaker THEN newNoOpBreaker(nextId) ELSE @]
    /\ nextId' = nextId + 1
    /\ lockW' = lockW \ {t}
    /\ gpc' = [gpc EXCEPT ![t] = "ret"]
    /\ UNCHANGED <<winVars, lockR, gloc, made, disabled, disabledDone, regCalls>>

\* breakers[name] = newNoOpBreaker(); lock.Unlock()
NoBreakerForStore(t) ==
    /\ gpc[t] = "NoStore"
    /\ breakers' = [breakers EXCEPT ![gloc[t].name] = newNoOpBreaker(nextId)]
    /\ nextId' = nextId + 1
    /\ lockW' = lockW \ {t}
    /\ gpc' = [gpc EXCEPT ![t] = "ret"]
    /\ UNCHANGED <<winVars, lockR, gloc, made, disabled, disabledDone, regCalls>>

\* GetBreaker returns b; NoBreakerFor returns
RegReturn(t) ==
    /\ gpc[t] = "ret"
    /\ disabledDone' = IF gloc[t].op = "NoBreakerFor"
                       THEN disabledDone \cup {gloc[t].name}
                       ELSE disabledDone
    /\ gloc' = [gloc EXCEPT ![t] = GFrame0]
    /\ gpc' = [gpc EXCEPT ![t] = "idle"]
    /\ UNCHANGED <<winVars, breakers, lockW, lockR, nextId, made, disabled, regCalls>>

\* The registry under concurrent callers of GetBreaker and NoBreakerFor.
NextReg ==
    \E t \in Callers :
        \/ GetBreakerCall(t)
        \/ GetRLock(t)
        \/ GetRead(t)
        \/ GetLock(t)
        \/ GetStore(t)
        \/ NoBreakerForCall(t)
        \/ NoBreakerForLock(t)
        \/ NoBreakerForStore(t)
        \/ RegReturn(t)

SpecReg == Init /\ [][NextReg]_vars

\* accept() as a pure function of what history() returned: the caller sits in
\* accept() (of allow or doReq) with history()'s result drawn from the range.
InitRatio ==
    /\ RegInit
    /\ now = 0
    /\ panicnil = FALSE
    /\ rw = newGoogleBreaker(now)
    /\ writer = {}
    /\ readers = {}
    /\ pc = [t \in Callers |-> IF t = Main THEN "decide" ELSE "idle"]
    /\ \E op \in {"allow", "doReq"}, fb \in BOOLEAN, a \in 0..MaxTotal, tt \in 0..MaxTotal :
         loc = [t \in Callers |->
                  IF t = Main
                  THEN [Frame0 EXCEPT !.op = op, !.fallback = fb, !.accepts = a, !.total = tt]
                  ELSE Frame0]
    /\ promise = [t \in Callers |-> FALSE]
    /\ calls = 0
    /\ added = <<0, 0>>
    /\ lastAdd = -1
    /\ oldest = <<>>

NextRatio == AcceptDecide(Main)

SpecRatio == InitRatio /\ [][NextRatio]_vars

\* ------------------------------------------------------------------ claims
\* the caller's accept() has returned: its decision is in the frame
AfterAccept(t) ==
    /\ loc[t].op \in {"doReq", "allow"}
    /\ pc[t] \in {"req", "Add", "updateOffset", "winAdd", "bucketAdd", "ret"}

\* what a history() call would return on window w at clock t
HistoryAt(w, t) == history(w, span(w, t))

RatLeq(a, b) == a[1] * b[2] <= b[1] * a[2]

\* C1: whenever doReq admitted the call and req() panicked, the call has
\* recorded exactly one failure (one Add(0)) and no success when the panic
\* leaves doReq, and it leaves with the value req() panicked with.
C1_PanicMarksFailureAndPropagates ==
    \A t \in Callers :
        (pc[t] = "ret" /\ loc[t].op = "doReq" /\ loc[t].req.kind = "panic")
        => /\ loc[t].adds = <<0>>
           /\ loc[t].result = [kind |-> "panic", val |-> loc[t].req.val]

\* C2: an admitted doReq whose req() returned e has performed exactly one Add
\* when it returns, Add(1) if acceptable(e) and Add(0) if not, and returns e;
\* and where req() returned nil under the default acceptable, a history()
\* taken at the instant the value lands (the bucket not yet aged out)
\* returns one more accept and one more total than it would have before.
C2_MarkedOnce ==
    \A t \in Callers :
        (pc[t] = "ret" /\ loc[t].op = "doReq" /\ loc[t].req.kind = "return")
        => /\ loc[t].adds = <<IF acceptable(loc[t].acceptable, loc[t].req.val) THEN 1 ELSE 0>>
           /\ loc[t].result = [kind |-> "return", val |-> loc[t].req.val]
           /\ loc[t].reqCalls = 1

C2_HistoryStep ==
    \A t \in Callers :
        (/\ AddWrite(t)
         /\ loc[t].op = "doReq"
         /\ loc[t].req = [kind |-> "return", val |-> Nil]
         /\ loc[t].acceptable = "default"
         /\ span(rw, now) < rw.size)
        => HistoryAt(rw', now') = <<HistoryAt(rw, now)[1] + 1, HistoryAt(rw, now)[2] + 1>>

C2_NormalReturnMarksExactlyOnce == [](C2_MarkedOnce) /\ [][C2_HistoryStep]_vars

C2_Witness ==
    \E t \in Callers :
        /\ pc[t] = "ret" /\ loc[t].op = "doReq"
        /\ loc[t].req = [kind |-> "return", val |-> Nil]
        /\ loc[t].acceptable = "default"
        /\ loc[t].adds = <<1>>
        /\ loc[t].total >= 1
        /\ HistoryAt(rw, now) = <<loc[t].accepts + 1, loc[t].total + 1>>

\* C3: a doReq that accept() refused never called req() and performed no Add,
\* and returns fallback(ErrServiceUnavailable) if a fallback was given and
\* ErrServiceUnavailable if not; accept() itself leaves the window as it
\* was; a doReq that was admitted never calls the fallback.
C3_Refused ==
    \A t \in Callers :
        loc[t].op = "doReq"
        => /\ (pc[t] = "ret" /\ loc[t].err = ErrServiceUnavailable)
              => /\ loc[t].reqCalls = 0
                 /\ loc[t].adds = <<>>
                 /\ loc[t].fbCalls = IF loc[t].fallback THEN 1 ELSE 0
                 /\ loc[t].result = [kind |-> IF loc[t].fallback THEN "fallback" ELSE "return",
                                     val |-> ErrServiceUnavailable]
           /\ (AfterAccept(t) /\ loc[t].err = Nil)
              => /\ loc[t].fbCalls = 0
                 /\ loc[t].result.kind # "fallback"

C3_AcceptStep ==
    \A t \in Callers : (loc[t].op = "doReq" /\ pc[t] \in {"accept", "reduce", "decide"}) => rw' = rw

C3_RejectionRecordsNothing == [](C3_Refused) /\ [][C3_AcceptStep]_vars

C3_Witness ==
    \E t \in Callers :
        /\ pc[t] = "ret" /\ loc[t].op = "doReq"
        /\ loc[t].err = ErrServiceUnavailable
        /\ loc[t].fallback
        /\ loc[t].result.kind = "fallback"

\* C4: allow() performs no Add and leaves the window as it was; refused, it
\* returns the rejection error and the caller gets no promise; admitted, it
\* returns a promise; each Accept() of a promise is exactly one Add(1) and
\* each Reject() exactly one Add(0), raising the buckets' totals by (1, 1)
\* and (0, 1).
C4_Allow ==
    \A t \in Callers :
        pc[t] = "ret"
        => /\ loc[t].op = "allow"
              => /\ loc[t].adds = <<>>
                 /\ loc[t].err # Nil => loc[t].result = [kind |-> "return", val |-> loc[t].err]
                 /\ loc[t].err = Nil => loc[t].result = [kind |-> "promise", val |-> Nil]
           /\ loc[t].op = "Accept" => loc[t].adds = <<1>>
           /\ loc[t].op = "Reject" => loc[t].adds = <<0>>

C4_Step ==
    \A t \in Callers :
        /\ loc[t].op = "allow" => rw' = rw
        /\ (Return(t) /\ loc[t].op = "allow" /\ loc[t].err # Nil) => promise' = promise
        /\ (Return(t) /\ loc[t].op = "allow" /\ loc[t].err = Nil) => promise'[t]
        /\ (AddWrite(t) /\ loc[t].op = "Accept")
           => BucketTotals(rw'.buckets) =
                <<BucketTotals(rw.buckets)[1] + 1, BucketTotals(rw.buckets)[2] + 1>>
        /\ (AddWrite(t) /\ loc[t].op = "Reject")
           => BucketTotals(rw'.buckets) =
                <<BucketTotals(rw.buckets)[1], BucketTotals(rw.buckets)[2] + 1>>

C4_PromiseMarksExactlyOnce == [](C4_Allow) /\ [][C4_Step]_vars

C4_Witness ==
    \E t \in Callers :
        /\ pc[t] = "ret" /\ loc[t].op = "Accept"
        /\ promise[t]
        /\ loc[t].adds = <<1>>
        /\ BucketTotals(rw.buckets)[1] >= 1

\* C6: whenever history() returned total = 0, the drop ratio is 0 and
\* accept() admits without consulting the probability gate.
C6_EmptyHistoryAdmits ==
    \A t \in Callers :
        (AfterAccept(t) /\ loc[t].total = 0)
        => /\ RatEq(loc[t].ratio, <<0, 1>>)
           /\ loc[t].gate = "unused"
           /\ loc[t].err = Nil
           /\ pc[t] = "ret" => (loc[t].op = "allow" <=> loc[t].result.kind = "promise")

\* the history was empty because everything recorded has aged out
C6_Witness ==
    \E t \in Callers :
        /\ AfterAccept(t)
        /\ loc[t].total = 0
        /\ BucketTotals(rw.buckets)[2] > 0
        /\ loc[t].err = Nil

C8_DropRatioMonotone ==
    \A t \in Callers :
        AfterAccept(t)
        => /\ RatLeq(dropRatio(loc[t].accepts + 1, loc[t].total), loc[t].ratio)
           /\ RatLeq(loc[t].ratio, dropRatio(loc[t].accepts, loc[t].total + 1))

C8_Witness ==
    \E t \in Callers :
        /\ AfterAccept(t)
        /\ loc[t].accepts > 0
        /\ RatLess(dropRatio(loc[t].accepts + 1, loc[t].total), loc[t].ratio)
        /\ RatLess(loc[t].ratio, dropRatio(loc[t].accepts, loc[t].total + 1))

\* the callers inside Add's and inside Reduce's critical section
InAdd(t) == pc[t] \in {"updateOffset", "winAdd", "bucketAdd"}
InReduce(t) == pc[t] = "reduce"

\* C5: once size*interval has elapsed since the last Add returned, with no
\* write since, a Reduce visits no bucket and history() is (0, 0), whatever
\* the buckets still hold.
C5_AgedOutByTime ==
    /\ \A t \in Callers :
         (/\ pc[t] = "ret"
          /\ loc[t].op = "Reduce"
          /\ lastAdd >= 0
          /\ loc[t].at - lastAdd >= rw.size * rw.interval)
         => /\ loc[t].visited = <<>>
            /\ loc[t].accepts = 0
            /\ loc[t].total = 0
    /\ (lastAdd >= 0 /\ writer = {} /\ now - lastAdd >= rw.size * rw.interval)
       => /\ Reduce(rw, span(rw, now)) = <<>>
          /\ HistoryAt(rw, now) = <<0, 0>>

C5_Witness ==
    \E t \in Callers :
        /\ pc[t] = "ret"
        /\ loc[t].op = "Reduce"
        /\ lastAdd >= 0
        /\ loc[t].at - lastAdd >= rw.size * rw.interval
        /\ BucketTotals(rw.buckets)[1] > 0
        /\ loc[t].visited = <<>>
        /\ loc[t].total = 0

\* C9: a caller inside Add (from the span computation to the bucket
\* increment) excludes every other caller from Add and from Reduce, callers
\* inside Reduce exclude only Add, and the window a Reduce works on is the
\* one it locked: no rotation or write lands while it holds the read lock.
C9_AddExcludesAddAndReduce ==
    /\ \A t \in Callers :
         /\ InAdd(t) => \A u \in Callers \ {t} : ~InAdd(u) /\ ~InReduce(u)
         /\ InAdd(t) <=> t \in writer
         /\ InReduce(t) <=> t \in readers
         /\ InReduce(t) => /\ writer = {}
                           /\ loc[t].span = span(rw, loc[t].at)
    /\ Cardinality(writer) <= 1

\* a Reduce waits while an Add has rotated the window and not yet added
C9_Witness ==
    \E t \in Callers, u \in Callers :
        /\ pc[t] = "winAdd"
        /\ loc[t].span > 0
        /\ rw.lastTime > 0
        /\ pc[u] = "accept"
        /\ loc[u].op = "Reduce"
        /\ ~CanRLock

\* two Reduce calls in progress at the same time
C9_ReadersOverlap == \E t \in Callers : \E u \in Callers \ {t} : InReduce(t) /\ InReduce(u)

\* C10: the bucket in use holds exactly the sum and the number of the
\* values added since it came into use, and every Add raises the sum over
\* all buckets by its value and the count by one, whichever caller adds
\* and in whichever order.
C10_CurrentBucket ==
    rw.buckets[rw.offset] = [Sum |-> added[1], Count |-> added[2]]

C10_AddStep ==
    \A t \in Callers :
        AddWrite(t)
        => /\ BucketTotals(rw'.buckets)[1] = BucketTotals(rw.buckets)[1] + loc[t].v
           /\ BucketTotals(rw'.buckets)[2] = BucketTotals(rw.buckets)[2] + 1

C10_NoLostUpdate == [](C10_CurrentBucket) /\ [][C10_AddStep]_vars

\* two callers' Adds of different values, both in the same bucket
C10_Witness ==
    /\ \A t \in Callers : pc[t] = "ret" /\ loc[t].op = "Add"
    /\ \E t \in Callers, u \in Callers : loc[t].v = markSuccess /\ loc[u].v = markFailure
    /\ added = <<markSuccess + markFailure, 2>>
    /\ rw.buckets[rw.offset] = [Sum |-> markSuccess + markFailure, Count |-> 2]

\* C11: the steps of Reduce leave the window (offset, lastTime and every
\* bucket) as it was, whatever the span, and what a Reduce returns is what
\* another Reduce at the same clock on the window it left returns; two
\* Reduce calls at one clock with no Add since return the same aggregates.
C11_ReduceStep ==
    \A t \in Callers :
        /\ ReduceRLock(t) => rw' = rw
        /\ ReduceRun(t)
           => /\ rw' = rw
              /\ loc'[t].visited = Reduce(rw', span(rw', loc[t].at))
              /\ <<loc'[t].accepts, loc'[t].total>> = HistoryAt(rw', loc[t].at)

C11_SameClockSameAggregates ==
    \A t \in Callers : \A u \in Callers :
        (/\ pc[t] = "ret" /\ loc[t].op = "Reduce"
         /\ pc[u] = "ret" /\ loc[u].op = "Reduce"
         /\ loc[t].at = loc[u].at
         /\ writer = {}
         /\ lastAdd < loc[t].at)
        => /\ loc[t].visited = loc[u].visited
           /\ loc[t].accepts = loc[u].accepts
           /\ loc[t].total = loc[u].total

C11_ReduceDoesNotMutate == [](C11_SameClockSameAggregates) /\ [][C11_ReduceStep]_vars

\* a Reduce that saw a span above 0 returned data and left the window unrotated
C11_Witness ==
    \E t \in Callers :
        /\ pc[t] = "ret"
        /\ loc[t].op = "Reduce"
        /\ loc[t].span > 0
        /\ loc[t].total > 0
        /\ lastAdd >= 0
        /\ lastAdd < loc[t].at
        /\ writer = {}
        /\ span(rw, loc[t].at) = loc[t].span
        /\ HistoryAt(rw, loc[t].at) = <<loc[t].accepts, loc[t].total>>

\* the bucket indices a Reduce in progress visits
VisitedBy(t) == {Reduce(rw, loc[t].span)[k] : k \in 1..Len(Reduce(rw, loc[t].span))}

\* C12: a Reduce whose clock read is t' visits no bucket that holds a value
\* of an Add completed at a time t with t' >= t + size*interval, however the
\* clock advances between and during the calls; and the bucket an Add
\* rotates to is empty before the Add writes into it.
C12_NoDataOlderThanWindow ==
    \A t \in Callers :
        /\ pc[t] = "reduce"
           => \A i \in VisitedBy(t) :
                 oldest[i] = -1 \/ loc[t].at - oldest[i] < rw.size * rw.interval
        /\ (pc[t] = "winAdd" /\ loc[t].span > 0)
           => rw.buckets[rw.offset] = ZeroBucket /\ oldest[rw.offset] = -1

\* C13: for a name NoBreakerFor was never called with, GetBreaker has
\* constructed at most one breaker, that one is the one stored, every
\* GetBreaker call about to return (the racing ones and the later ones)
\* returns the stored instance, and the stored instance is never replaced.
C13_OneInstance ==
    \A n \in Names \ disabled :
        /\ made[n] <= 1
        /\ made[n] = 1 <=> breakers[n] # NoBreaker
        /\ breakers[n] # NoBreaker => breakers[n].kind = "google"
        /\ \A t \in Callers :
             (gpc[t] = "ret" /\ gloc[t].op = "GetBreaker" /\ gloc[t].name = n)
             => gloc[t].b = breakers[n] /\ gloc[t].b # NoBreaker

C13_Step ==
    \A n \in Names :
        (n \notin disabled' /\ breakers[n] # NoBreaker) => breakers'[n] = breakers[n]

C13_GetBreakerSingleInstance == [](C13_OneInstance) /\ [][C13_Step]_vars

\* two callers raced on an unregistered name, both missed under the shared
\* lock, and both return the one instance
C13_Witness ==
    \E n \in Names \ disabled : \E t \in Callers : \E u \in Callers \ {t} :
        /\ gpc[t] = "ret" /\ gloc[t].op = "GetBreaker" /\ gloc[t].name = n
        /\ gpc[u] = "ret" /\ gloc[u].op = "GetBreaker" /\ gloc[u].name = n
        /\ gloc[t].missed /\ gloc[u].missed
        /\ made[n] = 1
        /\ gloc[t].b = gloc[u].b
        /\ gloc[t].b = breakers[n]

\* C14: once a NoBreakerFor(name) has returned, the breaker stored for name
\* is a no-op breaker, and every GetBreaker(name) that started after that
\* return returns a no-op breaker, whatever was registered before and
\* whichever calls run concurrently.
C14_NoBreakerForOverrides ==
    /\ \A n \in disabledDone : breakers[n].kind = "noop"
    /\ \A t \in Callers :
         (gpc[t] = "ret" /\ gloc[t].op = "GetBreaker" /\ gloc[t].afterDisable)
         => gloc[t].b.kind = "noop"

\* an adaptive breaker was registered first, NoBreakerFor replaced it, and a
\* later GetBreaker returns the no-op breaker
C14_Witness ==
    \E t \in Callers :
        /\ gpc[t] = "ret" /\ gloc[t].op = "GetBreaker" /\ gloc[t].afterDisable
        /\ made[gloc[t].name] = 1
        /\ gloc[t].b.kind = "noop"
        /\ gloc[t].b = breakers[gloc[t].name]

\* C15: a Reduce that computed span s visits, once each and in this order,
\* the size - s slots (offset+s+1) % size .. (offset+size) % size and none of
\* the s aged-out slots (offset+1) % size .. (offset+s) % size; with s = 0
\* and ignoreCurrent it visits the size - 1 slots other than offset; with
\* s = size it visits none. For size 3, interval 10, offset 0 and 25 elapsed
\* the span is 2 and the one slot visited is 0.
C15_ReduceVisitsValidSlots ==
    /\ \A t \in Callers :
         (pc[t] = "ret" /\ loc[t].op = "Reduce")
         => LET s == loc[t].span
                vis == loc[t].visited
                seen == {vis[k] : k \in 1..Len(vis)}
            IN  /\ s \in 0..rw.size
                /\ Cardinality(seen) = Len(vis)
                /\ seen \subseteq 0..(rw.size - 1)
                /\ IF s = 0 /\ rw.ignoreCurrent
                   THEN /\ Len(vis) = rw.size - 1
                        /\ seen = (0..(rw.size - 1)) \ {rw.offset}
                   ELSE /\ Len(vis) = rw.size - s
                        /\ \A k \in 1..(rw.size - s) : vis[k] = (rw.offset + s + k) % rw.size
                        /\ \A j \in 1..s : (rw.offset + j) % rw.size \notin seen
                /\ s = rw.size => vis = <<>>
    /\ span(NewRollingWindow(3, 10, FALSE, 0), 25) = 2
    /\ Reduce(NewRollingWindow(3, 10, FALSE, 0), 2) = <<0>>

\* a Reduce on a rotated window skipped aged-out slots and wrapped around
C15_Witness ==
    \E t \in Callers :
        /\ pc[t] = "ret" /\ loc[t].op = "Reduce"
        /\ rw.offset > 0
        /\ loc[t].span > 0
        /\ loc[t].span < rw.size
        /\ loc[t].visited = <<rw.offset>>
        /\ loc[t].total > 0

\* the slots updateOffset resets for span s
Expired(w, s) == {(w.offset + j) % w.size : j \in 1..s}

\* C16: an Add(v) that computed span s: with s = 0 its rotation step changes
\* nothing; with s > 0 it resets exactly the s slots (offset+1) % size ..
\* (offset+s) % size, leaves the others (the old offset's among them, when
\* s < size) as they were and moves offset to (offset+s) % size; its write
\* then changes only the bucket at offset, by (v, 1), leaving offset and
\* lastTime, so that bucket holds exactly (v, 1) when s > 0 and the whole
\* window holds exactly (v, 1) when s = size.
C16_Step ==
    \A t \in Callers :
        LET s == loc[t].span
        IN  /\ (AddLock(t) \/ AddRead(t)) => rw' = rw
            /\ AddUpdateOffset(t)
               => /\ s \in 0..rw.size
                  /\ s = 0 => rw' = rw
                  /\ s > 0 => /\ rw'.offset = (rw.offset + s) % rw.size
                              /\ \A i \in 0..(rw.size - 1) :
                                    rw'.buckets[i] = IF i \in Expired(rw, s)
                                                     THEN ZeroBucket
                                                     ELSE rw.buckets[i]
                              /\ Cardinality(Expired(rw, s)) = s
                              /\ s < rw.size => rw.offset \notin Expired(rw, s)
                  /\ rw'.size = rw.size /\ rw'.interval = rw.interval
            /\ AddWrite(t)
               => /\ rw'.offset = rw.offset /\ rw'.lastTime = rw.lastTime
                  /\ \A i \in 0..(rw.size - 1) :
                        rw'.buckets[i] = IF i = rw.offset
                                         THEN [Sum |-> rw.buckets[i].Sum + loc[t].v,
                                               Count |-> rw.buckets[i].Count + 1]
                                         ELSE rw.buckets[i]
                  /\ s > 0 => rw'.buckets[rw.offset] = [Sum |-> loc[t].v, Count |-> 1]
                  /\ s = rw.size => BucketTotals(rw'.buckets) = <<loc[t].v, 1>>

C16_AddFrameEffects == [][C16_Step]_vars

\* an Add rotated by less than the size, kept the old offset's bucket and
\* left exactly its own value in the new one
C16_Witness ==
    \E t \in Callers :
        /\ pc[t] = "ret" /\ loc[t].op = "Add"
        /\ rw.size > 1
        /\ rw.offset > 0
        /\ rw.buckets[rw.offset] = [Sum |-> loc[t].v, Count |-> 1]
        /\ rw.buckets[0].Count > 0
        /\ lastAdd = now

\* C17: in every reachable state 0 <= offset < size, the buckets are the
\* slots 0 .. size-1, every span computed lies in 0 .. size, and the slots
\* Add writes, updateOffset resets and Reduce visits lie in 0 .. size-1.
C17_OffsetInRange ==
    /\ rw.size >= 1
    /\ rw.offset \in 0..(rw.size - 1)
    /\ DOMAIN rw.buckets = 0..(rw.size - 1)
    /\ \A t \in Callers :
         /\ pc[t] \in {"reduce", "updateOffset"}
            => /\ loc[t].span \in 0..rw.size
               /\ Expired(rw, loc[t].span) \subseteq 0..(rw.size - 1)
               /\ VisitedBy(t) \subseteq 0..(rw.size - 1)
         /\ \A k \in 1..Len(loc[t].visited) : loc[t].visited[k] \in 0..(rw.size - 1)

\* an Add's rotation wrapped the offset around from the last slot to slot 0
C17_Witness ==
    \E t \in Callers :
        /\ pc[t] = "winAdd"
        /\ rw.size > 1
        /\ loc[t].span > 0
        /\ loc[t].span < rw.size
        /\ rw.offset = 0

\* C18: lastTime differs from its value at construction (clock 0) by a whole
\* multiple of interval; an Add that advances offset by s < size slots
\* advances lastTime by exactly s*interval; and with t the last clock read of
\* an Add, lastTime <= t < lastTime + interval once its rotation is done;
\* however the clock advances between the clock read in span() and the one
\* in updateOffset.
C18_Aligned == (rw.lastTime % rw.interval) = 0

C18_Step ==
    \A t \in Callers :
        AddUpdateOffset(t)
        => LET s == loc[t].span
               read == IF s > 0 THEN now ELSE loc[t].at
           IN  /\ (0 < s /\ s < rw.size) => rw'.lastTime = rw.lastTime + s * rw.interval
               /\ s = 0 => rw'.lastTime = rw.lastTime
               /\ rw'.lastTime <= read
               /\ read < rw'.lastTime + rw.interval

C18_LastTimeIsBucketStart == [](C18_Aligned) /\ [][C18_Step]_vars

\* the window after updateOffset's rotation at clock t, no value added
Rotated(w, t) == updateOffset(w, span(w, t), t)

\* C19: in every reachable window state and at every clock from now on, the
\* aggregates a Reduce returns on the window as it is equal those a Reduce
\* at the same clock returns on the window rotated first, with and without
\* ignoreCurrent.
C19_LazyEqualsEager ==
    /\ \A c \in now..MaxTime(rw) : HistoryAt(rw, c) = HistoryAt(Rotated(rw, c), c)
    /\ \A t \in Callers :
         (pc[t] = "ret" /\ loc[t].op = "Reduce" /\ writer = {} /\ lastAdd < loc[t].at)
         => <<loc[t].accepts, loc[t].total>> = HistoryAt(Rotated(rw, loc[t].at), loc[t].at)

\* a Reduce with ignoreCurrent left out a slot that still holds data and
\* returned what it would have returned on the rotated window
C19_Witness ==
    \E t \in Callers :
        /\ pc[t] = "ret" /\ loc[t].op = "Reduce"
        /\ writer = {} /\ lastAdd < loc[t].at
        /\ rw.ignoreCurrent
        /\ loc[t].span > 0
        /\ loc[t].span < rw.size
        /\ loc[t].total > 0
        /\ BucketTotals(rw.buckets)[2] > loc[t].total
        /\ Rotated(rw, loc[t].at) # rw
        /\ <<loc[t].accepts, loc[t].total>> = HistoryAt(Rotated(rw, loc[t].at), loc[t].at)

\* C20: for 0 <= accepts <= total the drop ratio accept() computes is at
\* least 0 and below 1, and whenever total - protection <= k * accepts (so
\* whenever total <= 5, and whenever accepts = total) it is 0 and accept()
\* admits without consulting the gate.
C20_DropRatioIsProbability ==
    \A t \in Callers :
        (AfterAccept(t) /\ loc[t].accepts <= loc[t].total)
        => /\ loc[t].ratio[2] > 0
           /\ RatLeq(<<0, 1>>, loc[t].ratio)
           /\ RatLess(loc[t].ratio, <<1, 1>>)
           /\ (kDen * (loc[t].total - protection) <= kNum * loc[t].accepts)
              => /\ RatEq(loc[t].ratio, <<0, 1>>)
                 /\ loc[t].gate = "unused"
                 /\ loc[t].err = Nil
           /\ (loc[t].total <= 5 \/ loc[t].accepts = loc[t].total)
              => RatEq(loc[t].ratio, <<0, 1>>) /\ loc[t].err = Nil

\* the largest ratio of the range, after 100 failures, is below 1 and the
\* gate was consulted
C20_Witness ==
    \E t \in Callers :
        /\ AfterAccept(t)
        /\ loc[t].accepts = 0 /\ loc[t].total = 100
        /\ RatEq(loc[t].ratio, <<95, 101>>)
        /\ RatLess(loc[t].ratio, <<1, 1>>)
        /\ loc[t].gate = "true"

====
